---- MODULE Spec2Model ----
(***************************************************************************)
(* A model of izzy-lancedb/src/lib.rs: the LanceDbVectorIndex adapter, its *)
(* SeizzyhParams builder, build_query, and the two search operations top_n *)
(* and top_n_ids of the VectorStoreIndex trait.                            *)
(*                                                                         *)
(* Identifiers follow the source, which spells "search" as "seizzyh"       *)
(* (SeizzyhParams, seizzyh_type, vector_seizzyh).                          *)
(*                                                                         *)
(* Scores are f64 in the source; here a score is an integer number of      *)
(* hundredths (0.42 is 42, 0.0 is 0).                                      *)
(***************************************************************************)
EXTENDS Integers, Sequences, FiniteSets, TLC

VARIABLES
    model,           \* LanceDbVectorIndex.model
    table,           \* LanceDbVectorIndex.table
    id_field,        \* LanceDbVectorIndex.id_field
    seizzyh_params,  \* LanceDbVectorIndex.seizzyh_params (or the builder value)
    calls,           \* the in-flight top_n / top_n_ids futures, one per caller
    bq,              \* build_query applied on its own: input and output query
    dec              \* the decoding closures applied on their own

vars == <<model, table, id_field, seizzyh_params, calls, bq, dec>>

(***************************************************************************)
(* Bounds.                                                                 *)
(***************************************************************************)
MaxN == 2        \* largest result limit n a caller passes
MaxRows == 4     \* longest backend response decoded on its own

(***************************************************************************)
(* Option<T>.                                                              *)
(***************************************************************************)
None == [some |-> FALSE]
Some(v) == [some |-> TRUE, v |-> v]
Opt(S) == {None} \cup {Some(v) : v \in S}

(***************************************************************************)
(* SeizzyhType, DistanceType, SeizzyhParams and its fluent setters.        *)
(***************************************************************************)
SeizzyhType == {"Flat", "Approximate"}
DistanceType == {"L2", "Cosine"}
NprobesValues == {1, 20}
RefineValues == {5}
ColumnValues == {"vec2"}

SeizzyhParams ==
    [distance_type : Opt(DistanceType),
     seizzyh_type  : Opt(SeizzyhType),
     nprobes       : Opt(NprobesValues),
     refine_factor : Opt(RefineValues),
     post_filter   : Opt(BOOLEAN),
     column        : Opt(ColumnValues)]

\* #[derive(Default)]: every field None
SeizzyhParamsDefault ==
    [distance_type |-> None, seizzyh_type |-> None, nprobes |-> None,
     refine_factor |-> None, post_filter |-> None, column |-> None]

set_distance_type(p, d) == [p EXCEPT !.distance_type = Some(d)]
set_seizzyh_type(p, s) == [p EXCEPT !.seizzyh_type = Some(s)]
set_nprobes(p, n) == [p EXCEPT !.nprobes = Some(n)]
set_refine_factor(p, r) == [p EXCEPT !.refine_factor = Some(r)]
set_post_filter(p, b) == [p EXCEPT !.post_filter = Some(b)]
set_column(p, c) == [p EXCEPT !.column = Some(c)]

(***************************************************************************)
(* The query builder. A query carries the searched vector, its limit, its  *)
(* selected columns, and the log of the configuration calls build_query    *)
(* issued on it, in order.                                                 *)
(***************************************************************************)
SelectAll == [all |-> TRUE]
SelectColumns(cols) == [all |-> FALSE, columns |-> cols]

\* table.vector_seizzyh(v) / table.query().nearest_to(v): a fresh VectorQuery
NewVectorQuery(v) ==
    [vector |-> v, limit |-> None, select |-> SelectAll, ops |-> <<>>]

\* table.query(): a plain query, and nearest_to(v), which makes it a
\* VectorQuery that keeps what was configured so far
table_query == [limit |-> None, select |-> SelectAll]
nearest_to(q, v) ==
    [vector |-> v, limit |-> q.limit, select |-> q.select, ops |-> <<>>]

q_limit(q, n) == [q EXCEPT !.limit = Some(n)]
q_select(q, cols) == [q EXCEPT !.select = SelectColumns(cols)]

Issue(q, call) == [q EXCEPT !.ops = Append(@, call)]

q_distance_type(q, d) == Issue(q, [op |-> "distance_type", distance_type |-> d])
q_bypass_vector_index(q) == Issue(q, [op |-> "bypass_vector_index"])
q_nprobes(q, n) == Issue(q, [op |-> "nprobes", nprobes |-> n])
q_refine_factor(q, r) == Issue(q, [op |-> "refine_factor", refine_factor |-> r])
q_postfilter(q) == Issue(q, [op |-> "postfilter"])
q_column(q, c) == Issue(q, [op |-> "column", column |-> c])

\* The strategy branches of build_query (lines 80-91).
ApplyFlat(p, q) ==
    IF p.seizzyh_type = Some("Flat") THEN q_bypass_vector_index(q) ELSE q

\* Mutant: the tuning knobs applied without looking at seizzyh_type.
ApplyApproximateAnyType(p, q) ==
    LET qa == IF p.nprobes.some THEN q_nprobes(q, p.nprobes.v) ELSE q
    IN  IF p.refine_factor.some
        THEN q_refine_factor(qa, p.refine_factor.v)
        ELSE qa

\* Mutant: refine_factor applied before nprobes.
ApplyApproximateSwapped(p, q) ==
    IF p.seizzyh_type = Some("Approximate")
    THEN LET qa == IF p.refine_factor.some
                   THEN q_refine_factor(q, p.refine_factor.v)
                   ELSE q
         IN  IF p.nprobes.some THEN q_nprobes(qa, p.nprobes.v) ELSE qa
    ELSE q

ApplyApproximate(p, q) ==
    IF p.seizzyh_type = Some("Approximate")
    THEN LET qa == IF p.nprobes.some THEN q_nprobes(q, p.nprobes.v) ELSE q
         IN  IF p.refine_factor.some
             THEN q_refine_factor(qa, p.refine_factor.v)
             ELSE qa
    ELSE q

ApplyDistanceType(p, q) ==
    IF p.distance_type.some THEN q_distance_type(q, p.distance_type.v) ELSE q

\* Mutant: postfilter issued whenever post_filter is set, whatever its value.
ApplyPostFilterAnyValue(p, q) ==
    IF p.post_filter.some THEN q_postfilter(q) ELSE q

ApplyPostFilter(p, q) ==
    IF p.post_filter = Some(TRUE) THEN q_postfilter(q) ELSE q

ApplyColumn(p, q) ==
    IF p.column.some THEN q_column(q, p.column.v) ELSE q

build_query(p, q) ==
    ApplyColumn(p,
      ApplyPostFilter(p,
        ApplyApproximate(p,
          ApplyFlat(p,
            ApplyDistanceType(p, q)))))

(***************************************************************************)
(* The collaborators: the embedding model, the table and its schema.       *)
(***************************************************************************)
Texts == {"q1", "q2"}
Models == {"ada-002"}
IdFields == {"id", "text"}

\* model.embed_text(text): the vector a successful embedding returns
embed_text(m, text) ==
    CASE text = "q1" -> <<1, 0>>
      [] text = "q2" -> <<0, 1>>
      [] OTHER -> <<0, 0>>

\* The table: its columns, each marked as an embedding column or not.
TheTable ==
    [name |-> "docs",
     schema |-> << [name |-> "id", embedding |-> FALSE],
                   [name |-> "text", embedding |-> FALSE],
                   [name |-> "vector", embedding |-> TRUE] >>]

\* schema.filter_embeddings(): the names of the non-embedding columns
RECURSIVE filter_embeddings(_)
filter_embeddings(schema) ==
    IF schema = <<>> THEN <<>>
    ELSE LET rest == filter_embeddings(Tail(schema))
         IN  IF Head(schema).embedding THEN rest
             ELSE <<Head(schema).name>> \o rest

\* top_n, lines 204-215: the query handed to build_query
TopNBaseQuery(tbl, v, n) ==
    q_select(q_limit(NewVectorQuery(v), n), filter_embeddings(tbl.schema))

\* top_n_ids, lines 262-268: the query handed to build_query
TopNIdsBaseQuery(idf, v, n) ==
    q_limit(nearest_to(q_select(table_query, <<idf>>), v), n)

(***************************************************************************)
(* Result<T, VectorStoreError>.                                            *)
(***************************************************************************)
Ok(v) == [ok |-> TRUE, v |-> v]
Err(e) == [ok |-> FALSE, err |-> e]
EmptyQuery == NewVectorQuery(<<>>)
Pending == [ok |-> FALSE, pending |-> TRUE]

lancedb_to_izzy_error(e) == [kind |-> "DatastoreError", source |-> e]
serde_to_izzy_error(e) == [kind |-> "JsonError", source |-> e]
\* `?` on embed_text: From<EmbeddingError> for VectorStoreError
embedding_to_izzy_error(e) == [kind |-> "EmbeddingError", source |-> e]

(***************************************************************************)
(* serde_json::Value rows. A row is a JSON object: a function from the     *)
(* names of the fields it has to their values.                             *)
(***************************************************************************)
JFloat(h) == [t |-> "Number", repr |-> "Float", n |-> h]   \* h hundredths
JPosInt(k) == [t |-> "Number", repr |-> "PosInt", n |-> k]
JString(s) == [t |-> "String", s |-> s]

\* Value::get(key)
get(value, key) == IF key \in DOMAIN value THEN Some(value[key]) ELSE None

\* Number::as_f64: an integer is widened to a float, a float is returned
as_f64(number) ==
    IF number.repr = "Float" THEN Some(number.n) ELSE Some(number.n * 100)

unwrap_or_default(o) == IF o.some THEN o.v ELSE 0

\* format!("{i}") for a usize
Digit(d) == <<"0", "1", "2", "3", "4", "5", "6", "7", "8", "9">>[d + 1]

RECURSIVE FormatUsize(_)
FormatUsize(i) ==
    IF i < 10 THEN Digit(i) ELSE FormatUsize(i \div 10) \o Digit(i % 10)

\* serde_json::from_value::<T>(value) for the payload type
\* T = struct { text: String }
from_value(value) ==
    LET f == get(value, "text")
    IN  IF ~f.some THEN Err("missing field text")
        ELSE IF f.v.t # "String" THEN Err("invalid type: expected a string")
        ELSE Ok([text |-> f.v.s])

TopNScoreKey == "_distance"
TopNIdsScoreKey == "distance"

\* lines 224-227 and 276-279
Score(value, key) ==
    LET d == get(value, key)
    IN  IF d.some /\ d.v.t = "Number" THEN unwrap_or_default(as_f64(d.v))
        ELSE 0

\* Mutant: the placeholder id numbered from 1.
TopNIdOneBased(i, value, idf) ==
    LET f == get(value, idf)
    IN  IF f.some /\ f.v.t = "String" THEN f.v.s
        ELSE "unknown" \o FormatUsize(i + 1)

\* lines 228-231
TopNId(i, value, idf) ==
    LET f == get(value, idf)
    IN  IF f.some /\ f.v.t = "String" THEN f.v.s
        ELSE "unknown" \o FormatUsize(i)

\* lines 280-283
TopNIdsId(value, idf) ==
    LET f == get(value, idf)
    IN  IF f.some /\ f.v.t = "String" THEN f.v.s ELSE ""

\* the closure of top_n, lines 222-234
top_n_row(i, value, idf) ==
    LET payload == from_value(value)
    IN  IF payload.ok
        THEN Ok([score |-> Score(value, TopNScoreKey),
                 id |-> TopNId(i, value, idf),
                 payload |-> payload.v])
        ELSE Err(serde_to_izzy_error(payload.err))

\* the closure of top_n_ids, lines 274-285
top_n_ids_row(value, idf) ==
    Ok([score |-> Score(value, TopNIdsScoreKey),
        id |-> TopNIdsId(value, idf)])

\* Mutant: rows that fail to decode are dropped, the rest returned.
RECURSIVE CollectSkippingErrors(_)
CollectSkippingErrors(results) ==
    IF results = <<>> THEN Ok(<<>>)
    ELSE LET rest == CollectSkippingErrors(Tail(results))
         IN  IF Head(results).ok THEN Ok(<<Head(results).v>> \o rest.v)
             ELSE rest

\* Mutant: the outputs collected in reverse.
RECURSIVE CollectReversed(_)
CollectReversed(results) ==
    IF results = <<>> THEN Ok(<<>>)
    ELSE IF ~Head(results).ok THEN Err(Head(results).err)
    ELSE LET rest == CollectReversed(Tail(results))
         IN  IF rest.ok THEN Ok(Append(rest.v, Head(results).v)) ELSE rest

\* Iterator<Item = Result<T, E>>::collect::<Result<Vec<T>, E>>(): the first
\* error, or every value in order
RECURSIVE Collect(_)
Collect(results) ==
    IF results = <<>> THEN Ok(<<>>)
    ELSE IF ~Head(results).ok THEN Err(Head(results).err)
    ELSE LET rest == Collect(Tail(results))
         IN  IF rest.ok THEN Ok(<<Head(results).v>> \o rest.v) ELSE rest

\* lines 220-235: into_iter().enumerate().map(closure).collect()
DecodeTopN(rows, idf) ==
    Collect([i \in 1..Len(rows) |-> top_n_row(i - 1, rows[i], idf)])

\* lines 273-286: into_iter().map(closure).collect()
DecodeTopNIds(rows, idf) ==
    Collect([i \in 1..Len(rows) |-> top_n_ids_row(rows[i], idf)])

\* A caller's future: where it stands (pc), its arguments, its locals, what
\* its collaborators answered so far, and how often it invoked each of them.
IdleCall ==
    [pc |-> "idle", kind |-> "none", text |-> "", n |-> 0,
     vec |-> <<>>, query |-> EmptyQuery, rows |-> <<>>, result |-> Pending,
     answers |-> <<>>, embeds |-> 0, builds |-> 0, executes |-> 0]

Callers == {"a", "b"}

BqIdle == [stage |-> "off", in |-> EmptyQuery, out |-> EmptyQuery]
DecIdle == [stage |-> "off", rows |-> <<>>, out |-> Pending]

(***************************************************************************)
(* SpecBuild: a SeizzyhParams value is configured through its setters,     *)
(* starting from SeizzyhParams::default(), and build_query is applied to   *)
(* the query that top_n or top_n_ids hands it.                             *)
(***************************************************************************)
BaseQueries ==
    {TopNBaseQuery(TheTable, embed_text("ada-002", t), n) :
        t \in Texts, n \in 0..MaxN}
    \cup {TopNIdsBaseQuery(f, embed_text("ada-002", t), n) :
        f \in IdFields, t \in Texts, n \in 0..MaxN}

InitBuild ==
    /\ model = "ada-002"
    /\ table = TheTable
    /\ id_field = "id"
    /\ seizzyh_params = SeizzyhParamsDefault
    /\ calls = [c \in Callers |-> IdleCall]
    /\ \E q \in BaseQueries : bq = [stage |-> "params", in |-> q, out |-> q]
    /\ dec = DecIdle

BuildFrame == UNCHANGED <<model, table, id_field, calls, bq, dec>>

SetDistanceType ==
    /\ bq.stage = "params"
    /\ \E d \in DistanceType :
          seizzyh_params' = set_distance_type(seizzyh_params, d)
    /\ BuildFrame

SetSeizzyhType ==
    /\ bq.stage = "params"
    /\ \E s \in SeizzyhType :
          seizzyh_params' = set_seizzyh_type(seizzyh_params, s)
    /\ BuildFrame

SetNprobes ==
    /\ bq.stage = "params"
    /\ \E n \in NprobesValues : seizzyh_params' = set_nprobes(seizzyh_params, n)
    /\ BuildFrame

SetRefineFactor ==
    /\ bq.stage = "params"
    /\ \E r \in RefineValues :
          seizzyh_params' = set_refine_factor(seizzyh_params, r)
    /\ BuildFrame

SetPostFilter ==
    /\ bq.stage = "params"
    /\ \E b \in BOOLEAN : seizzyh_params' = set_post_filter(seizzyh_params, b)
    /\ BuildFrame

SetColumn ==
    /\ bq.stage = "params"
    /\ \E c \in ColumnValues : seizzyh_params' = set_column(seizzyh_params, c)
    /\ BuildFrame

\* LanceDbVectorIndex::new with the configured params, then build_query
BuildQueryStep ==
    /\ bq.stage = "params"
    /\ bq' = [bq EXCEPT !.stage = "built",
                        !.out = build_query(seizzyh_params, bq.in)]
    /\ UNCHANGED <<model, table, id_field, seizzyh_params, calls, dec>>

NextBuild ==
    \/ SetDistanceType
    \/ SetSeizzyhType
    \/ SetNprobes
    \/ SetRefineFactor
    \/ SetPostFilter
    \/ SetColumn
    \/ BuildQueryStep

SpecBuild == InitBuild /\ [][NextBuild]_vars

(***************************************************************************)
(* Reading the call log of a query.                                        *)
(***************************************************************************)
Issued(q, name) == \E i \in 1..Len(q.ops) : q.ops[i].op = name
StrategyOps == {"bypass_vector_index", "nprobes", "refine_factor"}
IsStrategyCall(call) == call.op \in StrategyOps
StrategyCalls(q) == SelectSeq(q.ops, IsStrategyCall)
Built == bq.stage = "built"

\* C1: when seizzyh_type is not Approximate (Flat, or unset), build_query
\* issues neither the nprobes call nor the refine_factor call, whatever
\* nprobes and refine_factor hold; with seizzyh_type = Flat the only strategy
\* call issued is bypass_vector_index.
C1_NoKnobsUnlessApproximate ==
    (Built /\ seizzyh_params.seizzyh_type # Some("Approximate")) =>
        /\ ~Issued(bq.out, "nprobes")
        /\ ~Issued(bq.out, "refine_factor")
        /\ seizzyh_params.seizzyh_type = Some("Flat") =>
              StrategyCalls(bq.out) = << [op |-> "bypass_vector_index"] >>

C1_Witness ==
    /\ Built
    /\ seizzyh_params.seizzyh_type = Some("Flat")
    /\ seizzyh_params.nprobes.some
    /\ seizzyh_params.refine_factor.some
    /\ StrategyCalls(bq.out) = << [op |-> "bypass_vector_index"] >>

\* C2: with seizzyh_type = Approximate, build_query issues the nprobes call
\* exactly when nprobes is set and the refine_factor call exactly when
\* refine_factor is set, each once and with the stored value, the nprobes
\* call before the refine_factor call, and never bypass_vector_index.
C2_ApproximateKnobsInOrder ==
    (Built /\ seizzyh_params.seizzyh_type = Some("Approximate")) =>
        LET ops == bq.out.ops
            at(name) == {i \in 1..Len(ops) : ops[i].op = name}
        IN  /\ Cardinality(at("nprobes")) =
                  (IF seizzyh_params.nprobes.some THEN 1 ELSE 0)
            /\ Cardinality(at("refine_factor")) =
                  (IF seizzyh_params.refine_factor.some THEN 1 ELSE 0)
            /\ \A i \in at("nprobes") :
                  ops[i].nprobes = seizzyh_params.nprobes.v
            /\ \A i \in at("refine_factor") :
                  ops[i].refine_factor = seizzyh_params.refine_factor.v
            /\ \A i \in at("nprobes") : \A j \in at("refine_factor") : i < j
            /\ at("bypass_vector_index") = {}

C2_Witness ==
    /\ Built
    /\ seizzyh_params.seizzyh_type = Some("Approximate")
    /\ seizzyh_params.nprobes = Some(20)
    /\ seizzyh_params.refine_factor = Some(5)
    /\ StrategyCalls(bq.out) =
          << [op |-> "nprobes", nprobes |-> 20],
             [op |-> "refine_factor", refine_factor |-> 5] >>

\* C3: build_query issues no builder call for an unset field: no
\* distance_type call when distance_type is unset, no strategy call when
\* seizzyh_type is unset, no postfilter call when post_filter is unset or
\* false, no column call when column is unset; with every field unset the
\* query leaves build_query as it entered, limit and selected columns
\* included.
C3_UnsetFieldsIssueNothing ==
    Built =>
        /\ ~seizzyh_params.distance_type.some =>
              ~Issued(bq.out, "distance_type")
        /\ ~seizzyh_params.seizzyh_type.some => StrategyCalls(bq.out) = <<>>
        /\ seizzyh_params.post_filter # Some(TRUE) =>
              ~Issued(bq.out, "postfilter")
        /\ ~seizzyh_params.column.some => ~Issued(bq.out, "column")
        /\ seizzyh_params = SeizzyhParamsDefault => bq.out = bq.in

C3_Witness ==
    /\ Built
    /\ seizzyh_params = set_post_filter(SeizzyhParamsDefault, FALSE)
    /\ bq.out = bq.in
    /\ bq.in.limit = Some(MaxN)

(***************************************************************************)
(* SpecDecode: the decoding of top_n and of top_n_ids applied to a backend *)
(* response, a sequence of rows.                                           *)
(***************************************************************************)
RowFull == ("_distance" :> JFloat(42)) @@ ("id" :> JString("rec-1"))
              @@ ("text" :> JString("hello"))
RowNoScore == ("id" :> JString("rec-2")) @@ ("text" :> JString("hello"))
RowNoId == ("_distance" :> JFloat(10)) @@ ("text" :> JString("hello"))
RowBare == ("_distance" :> JFloat(10))
RowOddTypes == ("_distance" :> JString("far")) @@ ("id" :> JPosInt(7))
                  @@ ("text" :> JString("hello"))
RowNoUnderscore == ("distance" :> JFloat(42)) @@ ("id" :> JString("rec-1"))
                      @@ ("text" :> JPosInt(3))
RowIntScore == ("_distance" :> JPosInt(1)) @@ ("distance" :> JFloat(5))
                  @@ ("id" :> JString("rec-2")) @@ ("text" :> JString("hi"))

RowUniverse ==
    {RowFull, RowNoScore, RowNoId, RowBare, RowOddTypes, RowNoUnderscore,
     RowIntScore}

SeqsUpTo(S, k) == UNION {[1..m -> S] : m \in 0..k}

InitDecode ==
    /\ model = "ada-002"
    /\ table = TheTable
    /\ id_field \in IdFields
    /\ seizzyh_params = SeizzyhParamsDefault
    /\ calls = [c \in Callers |-> IdleCall]
    /\ bq = BqIdle
    /\ \E rows \in SeqsUpTo(RowUniverse, MaxRows) :
          dec = [stage |-> "rows", rows |-> rows, out |-> Pending]

DecodeFrame ==
    UNCHANGED <<model, table, id_field, seizzyh_params, calls, bq>>

DecodeTopNStep ==
    /\ dec.stage = "rows"
    /\ dec' = [dec EXCEPT !.stage = "top_n",
                          !.out = DecodeTopN(dec.rows, id_field)]
    /\ DecodeFrame

DecodeTopNIdsStep ==
    /\ dec.stage = "rows"
    /\ dec' = [dec EXCEPT !.stage = "top_n_ids",
                          !.out = DecodeTopNIds(dec.rows, id_field)]
    /\ DecodeFrame

NextDecode == DecodeTopNStep \/ DecodeTopNIdsStep

SpecDecode == InitDecode /\ [][NextDecode]_vars

Decoded == dec.stage \in {"top_n", "top_n_ids"}
HasNumber(value, key) == key \in DOMAIN value /\ value[key].t = "Number"
HasString(value, key) == key \in DOMAIN value /\ value[key].t = "String"
NumericValue(number) ==
    IF number.repr = "Float" THEN number.n ELSE 100 * number.n

\* C4: in top_n and in top_n_ids alike, the score of each decoded row is the
\* numeric value of the row's "_distance" field when that field is present
\* and numeric, and 0.0 otherwise.
C4_ScoreIsUnderscoreDistance ==
    (Decoded /\ dec.out.ok) =>
        \A i \in 1..Len(dec.rows) :
            dec.out.v[i].score =
                (IF HasNumber(dec.rows[i], "_distance")
                 THEN NumericValue(dec.rows[i]["_distance"])
                 ELSE 0)

\* C5: for a row whose id column is missing or not a string, top_n yields
\* "unknown<i>", i the row's position in the response counted from 0, and
\* top_n_ids yields ""; when the id column is a string both yield it
\* unchanged; top_n_ids never fails, and top_n fails only for a payload that
\* does not decode.
C5_MissingIdPlaceholder ==
    /\ (dec.stage = "top_n" /\ dec.out.ok) =>
          \A i \in 1..Len(dec.rows) :
              dec.out.v[i].id =
                  (IF HasString(dec.rows[i], id_field)
                   THEN dec.rows[i][id_field].s
                   ELSE "unknown" \o ToString(i - 1))
    /\ dec.stage = "top_n_ids" =>
          /\ dec.out.ok
          /\ \A i \in 1..Len(dec.rows) :
                dec.out.v[i].id =
                    (IF HasString(dec.rows[i], id_field)
                     THEN dec.rows[i][id_field].s
                     ELSE "")
    /\ dec.stage = "top_n" =>
          (dec.out.ok <=>
              \A i \in 1..Len(dec.rows) : HasString(dec.rows[i], "text"))

C5_Witness ==
    /\ dec.stage = "top_n"
    /\ id_field = "id"
    /\ Len(dec.rows) = 4
    /\ dec.rows[4] = RowNoId
    /\ dec.rows[1] = RowOddTypes
    /\ dec.out.ok
    /\ dec.out.v[4].id = "unknown3"
    /\ dec.out.v[1].id = "unknown0"
    /\ dec.out.v[2].id = "rec-1"

\* C6: if any returned row does not deserialize into T, top_n fails with
\* VectorStoreError::JsonError and returns no records, wherever the row
\* stands; otherwise it returns one record for every returned row.
C6_BadPayloadFailsWholeCall ==
    dec.stage = "top_n" =>
        IF \E i \in 1..Len(dec.rows) : ~HasString(dec.rows[i], "text")
        THEN /\ ~dec.out.ok
             /\ DOMAIN dec.out = {"ok", "err"}
             /\ dec.out.err.kind = "JsonError"
        ELSE /\ dec.out.ok
             /\ Len(dec.out.v) = Len(dec.rows)

C6_Witness ==
    /\ dec.stage = "top_n"
    /\ Len(dec.rows) = 3
    /\ dec.rows[1] = RowFull
    /\ dec.rows[2] = RowNoUnderscore
    /\ dec.rows[3] = RowNoScore
    /\ dec.out = Err(serde_to_izzy_error("invalid type: expected a string"))

\* C10: a successful top_n or top_n_ids returns one output per returned
\* row, in the backend's order: the i-th output is the one decoded from the
\* i-th row.
C10_OneOutputPerRowInOrder ==
    (Decoded /\ dec.out.ok) =>
        /\ Len(dec.out.v) = Len(dec.rows)
        /\ \A i \in 1..Len(dec.rows) :
              dec.out.v[i] =
                  (IF dec.stage = "top_n"
                   THEN top_n_row(i - 1, dec.rows[i], id_field).v
                   ELSE top_n_ids_row(dec.rows[i], id_field).v)

C10_Witness ==
    /\ dec.stage = "top_n_ids"
    /\ id_field = "id"
    /\ dec.rows = <<RowIntScore, RowFull, RowNoScore>>
    /\ dec.out.ok
    /\ dec.out.v = << [score |-> 5, id |-> "rec-2"],
                      [score |-> 0, id |-> "rec-1"],
                      [score |-> 0, id |-> "rec-2"] >>

(***************************************************************************)
(* Spec: callers run top_n and top_n_ids on one shared adapter. Each call  *)
(* is a future that suspends at embed_text, at table.schema() (top_n only) *)
(* and at execute_query; what runs between two suspension points is one    *)
(* step. The collaborators answer each request with success or failure.    *)
(***************************************************************************)
ParamsFullApproximate ==
    [distance_type |-> Some("Cosine"), seizzyh_type |-> Some("Approximate"),
     nprobes |-> Some(20), refine_factor |-> Some(5),
     post_filter |-> Some(TRUE), column |-> Some("vec2")]

ParamsFlat ==
    [distance_type |-> None, seizzyh_type |-> Some("Flat"),
     nprobes |-> Some(1), refine_factor |-> None,
     post_filter |-> Some(FALSE), column |-> None]

SpecParams == {SeizzyhParamsDefault, ParamsFullApproximate, ParamsFlat}
SpecRows == {RowFull, RowBare}

\* self.seizzyh_params.clone() (line 74): what the adapter holds afterwards
\* Mutant: the params moved out of the adapter instead of cloned.
ParamsAfterTake(p) == SeizzyhParamsDefault

ParamsAfterClone(p) == p

\* What a backend that honours the limit may answer to an executed query.
LimitOf(q) == IF q.limit.some THEN q.limit.v ELSE MaxN + 1
execute_query(q) == SeqsUpTo(SpecRows, LimitOf(q))

\* Mutant: the embedding attempted again after a failure.
OnEmbedErrRetry(l) ==
    [l EXCEPT !.answers = Append(@, "embed_err"), !.embeds = @ + 1]

\* `?` on a failed embed_text (lines 202, 260): the call returns the error
OnEmbedErr(l) ==
    [l EXCEPT !.pc = "done",
              !.answers = Append(@, "embed_err"),
              !.result = Err(embedding_to_izzy_error("embed failed"))]

\* `.map_err(lancedb_to_izzy_error)?` (lines 207, 213, 267): the call returns
\* the backend error
OnBackendErr(l, step) ==
    [l EXCEPT !.pc = "done",
              !.answers = Append(@, step),
              !.result = Err(lancedb_to_izzy_error("backend failed"))]

\* The VectorStoreError a failed execute_query hands back.
ExecuteQueryError == lancedb_to_izzy_error("execute failed")

\* `?` on execute_query (lines 219, 272): its error is returned as it is
OnExecuteErr(l) ==
    [l EXCEPT !.pc = "done",
              !.answers = Append(@, "exec_err"),
              !.result = Err(ExecuteQueryError)]

\* Mutant: top_n without its .limit(n).
TopNLimitOmitted(q, n) == q

\* `.limit(n)` of top_n (line 208)
TopNLimit(q, n) == q_limit(q, n)

Init ==
    /\ model \in Models
    /\ table = TheTable
    /\ id_field \in IdFields
    /\ seizzyh_params \in SpecParams
    /\ calls = [c \in Callers |-> IdleCall]
    /\ bq = BqIdle
    /\ dec = DecIdle

AdapterUnchanged == UNCHANGED <<model, table, id_field, seizzyh_params>>
HarnessUnchanged == UNCHANGED <<bq, dec>>

\* top_n(query, n) is called: embed_text is invoked and awaited (line 202)
CallTopN(c) ==
    /\ calls[c].pc = "idle"
    /\ \E text \in Texts, n \in 0..MaxN :
          calls' = [calls EXCEPT ![c] =
              [IdleCall EXCEPT !.pc = "embed", !.kind = "top_n",
                               !.text = text, !.n = n, !.embeds = 1]]
    /\ AdapterUnchanged /\ HarnessUnchanged

\* top_n_ids(query, n) is called: embed_text is invoked and awaited (line 260)
CallTopNIds(c) ==
    /\ calls[c].pc = "idle"
    /\ \E text \in Texts, n \in 0..MaxN :
          calls' = [calls EXCEPT ![c] =
              [IdleCall EXCEPT !.pc = "embed", !.kind = "top_n_ids",
                               !.text = text, !.n = n, !.embeds = 1]]
    /\ AdapterUnchanged /\ HarnessUnchanged

EmbedFails(c) ==
    /\ calls[c].pc = "embed"
    /\ calls' = [calls EXCEPT ![c] = OnEmbedErr(calls[c])]
    /\ AdapterUnchanged /\ HarnessUnchanged

\* embed_text succeeded, vector_seizzyh / nearest_to rejects the vector
\* (lines 206-207, 266-267)
EmbedOkQueryFails(c) ==
    /\ calls[c].pc = "embed"
    /\ calls' = [calls EXCEPT ![c] =
          OnBackendErr([calls[c] EXCEPT
                           !.answers = Append(@, "embed_ok"),
                           !.vec = embed_text(model, calls[c].text)],
                       "query_err")]
    /\ AdapterUnchanged /\ HarnessUnchanged

\* top_n, lines 204-212: vector_seizzyh(vec), limit(n), then schema() awaited
EmbedOkTopN(c) ==
    /\ calls[c].pc = "embed"
    /\ calls[c].kind = "top_n"
    /\ LET v == embed_text(model, calls[c].text)
       IN  calls' = [calls EXCEPT ![c] =
               [@ EXCEPT !.pc = "schema",
                         !.answers = Append(@, "embed_ok"),
                         !.vec = v,
                         !.query = TopNLimit(NewVectorQuery(v), calls[c].n)]]
    /\ AdapterUnchanged /\ HarnessUnchanged

\* top_n_ids, lines 262-271: the query is made, build_query applied, and
\* execute_query invoked and awaited
EmbedOkTopNIds(c) ==
    /\ calls[c].pc = "embed"
    /\ calls[c].kind = "top_n_ids"
    /\ LET v == embed_text(model, calls[c].text)
       IN  calls' = [calls EXCEPT ![c] =
               [@ EXCEPT !.pc = "execute",
                         !.answers = Append(@, "embed_ok"),
                         !.vec = v,
                         !.query = build_query(seizzyh_params,
                                      TopNIdsBaseQuery(id_field, v, calls[c].n)),
                         !.builds = @ + 1,
                         !.executes = @ + 1]]
    /\ seizzyh_params' = ParamsAfterClone(seizzyh_params)
    /\ UNCHANGED <<model, table, id_field>>
    /\ HarnessUnchanged

SchemaFails(c) ==
    /\ calls[c].pc = "schema"
    /\ calls' = [calls EXCEPT ![c] = OnBackendErr(calls[c], "schema_err")]
    /\ AdapterUnchanged /\ HarnessUnchanged

\* top_n, lines 209-218: select the non-embedding columns, build_query,
\* execute_query invoked and awaited
SchemaOk(c) ==
    /\ calls[c].pc = "schema"
    /\ calls' = [calls EXCEPT ![c] =
          [@ EXCEPT !.pc = "execute",
                    !.answers = Append(@, "schema_ok"),
                    !.query = build_query(seizzyh_params,
                                 q_select(calls[c].query,
                                          filter_embeddings(table.schema))),
                    !.builds = @ + 1,
                    !.executes = @ + 1]]
    /\ seizzyh_params' = ParamsAfterClone(seizzyh_params)
    /\ UNCHANGED <<model, table, id_field>>
    /\ HarnessUnchanged

ExecuteFails(c) ==
    /\ calls[c].pc = "execute"
    /\ calls' = [calls EXCEPT ![c] = OnExecuteErr(calls[c])]
    /\ AdapterUnchanged /\ HarnessUnchanged

\* execute_query answers with rows, which are decoded (lines 219-235, 272-286)
ExecuteOk(c) ==
    /\ calls[c].pc = "execute"
    /\ \E rows \in execute_query(calls[c].query) :
          calls' = [calls EXCEPT ![c] =
              [@ EXCEPT !.pc = "done",
                        !.answers = Append(@, "exec_ok"),
                        !.rows = rows,
                        !.result = IF calls[c].kind = "top_n"
                                   THEN DecodeTopN(rows, id_field)
                                   ELSE DecodeTopNIds(rows, id_field)]]
    /\ AdapterUnchanged /\ HarnessUnchanged

\* the caller takes the result; the future is dropped
Return(c) ==
    /\ calls[c].pc = "done"
    /\ calls' = [calls EXCEPT ![c] = IdleCall]
    /\ AdapterUnchanged /\ HarnessUnchanged

CallerStep(c) ==
    \/ CallTopN(c)
    \/ CallTopNIds(c)
    \/ EmbedFails(c)
    \/ EmbedOkQueryFails(c)
    \/ EmbedOkTopN(c)
    \/ EmbedOkTopNIds(c)
    \/ SchemaFails(c)
    \/ SchemaOk(c)
    \/ ExecuteFails(c)
    \/ ExecuteOk(c)
    \/ Return(c)

Next == \E c \in Callers : CallerStep(c)

Spec == Init /\ [][Next]_vars

(***************************************************************************)
(* SpecSingle: one caller, the adapter constructed with any SeizzyhParams  *)
(* value.                                                                  *)
(***************************************************************************)
InitSingle ==
    /\ model \in Models
    /\ table = TheTable
    /\ id_field \in IdFields
    /\ seizzyh_params \in SeizzyhParams
    /\ calls = [c \in Callers |-> IdleCall]
    /\ bq = BqIdle
    /\ dec = DecIdle

NextSingle == CallerStep("a")

SpecSingle == InitSingle /\ [][NextSingle]_vars

\* C7: for every n and every SeizzyhParams value, the query that top_n and
\* top_n_ids execute carries the limit n, so a successful call answered by
\* a backend that honours the limit returns at most n records.
C7_LimitCarriedAndRespected ==
    \A c \in Callers :
        /\ calls[c].pc = "execute" => calls[c].query.limit = Some(calls[c].n)
        /\ (calls[c].pc = "done" /\ calls[c].result.ok) =>
              Len(calls[c].result.v) <= calls[c].n

C7_Witness ==
    /\ seizzyh_params = ParamsFullApproximate
    /\ calls["a"].pc = "done"
    /\ calls["a"].kind = "top_n"
    /\ calls["a"].n = MaxN
    /\ calls["a"].query.limit = Some(MaxN)
    /\ calls["a"].result.ok
    /\ Len(calls["a"].result.v) = MaxN

(***************************************************************************)
(* What a call returns when it runs alone: a function of its own arguments *)
(* and of what the collaborators answered to it.                           *)
(***************************************************************************)
Answered(l, a) == \E i \in 1..Len(l.answers) : l.answers[i] = a
BackendFailed(l) == Answered(l, "query_err") \/ Answered(l, "schema_err")

QueryAlone(l) ==
    build_query(seizzyh_params,
        IF l.kind = "top_n"
        THEN TopNBaseQuery(table, embed_text(model, l.text), l.n)
        ELSE TopNIdsBaseQuery(id_field, embed_text(model, l.text), l.n))

ResultAlone(l) ==
    IF Answered(l, "embed_err")
    THEN Err(embedding_to_izzy_error("embed failed"))
    ELSE IF BackendFailed(l)
    THEN Err(lancedb_to_izzy_error("backend failed"))
    ELSE IF Answered(l, "exec_err") THEN Err(ExecuteQueryError)
    ELSE IF l.kind = "top_n" THEN DecodeTopN(l.rows, id_field)
    ELSE DecodeTopNIds(l.rows, id_field)

\* C8: under every interleaving of the suspending steps of concurrent top_n
\* and top_n_ids calls on one adapter, each call executes the query and
\* returns the result it would when run alone, and no step of a search call
\* changes the adapter's model, table, id_field or seizzyh_params.
C8_CallsIsolatedAdapterUnchanged ==
    /\ [](\A c \in Callers :
            /\ calls[c].pc = "execute" => calls[c].query = QueryAlone(calls[c])
            /\ calls[c].pc = "done" => calls[c].result = ResultAlone(calls[c]))
    /\ [][<<model, table, id_field, seizzyh_params>>'
             = <<model, table, id_field, seizzyh_params>>]_vars

C8_Witness ==
    /\ calls["a"].pc = "done"
    /\ calls["a"].kind = "top_n"
    /\ calls["a"].result.ok
    /\ Len(calls["a"].rows) = 1
    /\ calls["b"].pc = "execute"
    /\ calls["b"].kind = "top_n_ids"
    /\ calls["b"].text # calls["a"].text
    /\ calls["b"].n # calls["a"].n
    /\ calls["b"].query # calls["a"].query

\* C9: the embedding comes first and is attempted once: a failed embed makes
\* the call return the embedding error at once, with no query built or
\* executed; a failed backend step makes it return a backend error; no call
\* invokes embed_text or execute_query more than once.
C9_NoRetryEmbedFirst ==
    \A c \in Callers :
        LET l == calls[c]
        IN  /\ l.embeds <= 1
            /\ l.executes <= 1
            /\ l.pc # "idle" => l.embeds = 1
            /\ (l.builds > 0 \/ l.executes > 0) => Answered(l, "embed_ok")
            /\ Answered(l, "embed_err") =>
                  /\ l.pc = "done"
                  /\ l.result = Err(embedding_to_izzy_error("embed failed"))
                  /\ l.builds = 0
                  /\ l.executes = 0
                  /\ l.query = EmptyQuery
            /\ BackendFailed(l) =>
                  /\ l.pc = "done"
                  /\ ~l.result.ok
                  /\ l.result.err.kind = "DatastoreError"
                  /\ l.executes = 0
            /\ Answered(l, "exec_err") =>
                  /\ l.pc = "done"
                  /\ l.result = Err(ExecuteQueryError)
                  /\ l.embeds = 1
                  /\ l.executes = 1

C9_Witness ==
    /\ calls["a"].pc = "done"
    /\ calls["a"].answers = <<"embed_err">>
    /\ calls["a"].result.err.kind = "EmbeddingError"
    /\ calls["a"].executes = 0
    /\ calls["b"].pc = "done"
    /\ calls["b"].kind = "top_n"
    /\ calls["b"].answers = <<"embed_ok", "schema_ok", "exec_err">>
    /\ calls["b"].result = Err(ExecuteQueryError)
    /\ calls["b"].embeds = 1
    /\ calls["b"].executes = 1

====
